---------------------------- MODULE Spec2Model ----------------------------
(***************************************************************************)
(* Term planner (app.js): the term range, the expansion of all-day ICS     *)
(* events into per-day records, the multi-day count, and the Render click  *)
(* handler with its toolbar.                                               *)
(*                                                                         *)
(* Instants are epoch instants kept as a pair [d, ms]: the UTC day number  *)
(* (days since 1970-01-01) and the millisecond within that UTC day.  A     *)
(* luxon DateTime in zone Europe/London is such an instant; its calendar   *)
(* fields are derived with the zone's offset (GMT, or BST between the last *)
(* Sundays of March and October, changing at 01:00 UTC).                   *)
(*                                                                         *)
(* Environment: ICAL.Time.toJSDate() of a floating DATE value is midnight  *)
(* of that date in the host's local zone.  The host is taken to run in the *)
(* display zone (Europe/London), so toJSDate is London's midnight.         *)
(***************************************************************************)
EXTENDS Integers, Sequences, FiniteSets, TLC

\* ----- bounds of the model -----
\* Number of years explored, starting at FirstYear.
NumYears == 2
\* Longest non-recurring event, in calendar days (DTEND - DTSTART).
MaxSpan == 3
\* Event start dates are taken within this many days of a boundary of the
\* term or of a change of the zone's offset.
Margin == 2
\* COUNT of the longer daily recurrence rule.
DailyCount == 5
\* Most calls of iter.next() followed for one event.
MaxIter == 130
\* Render clicks followed.
MaxClicks == 2

\* ----- calendar arithmetic (what luxon and Date compute) -----
FirstYear == 2024
MsPerHour == 3600000
MsPerDay == 24 * MsPerHour

\* Days since 1970-01-01 of the civil date y-m-d (proleptic Gregorian), the
\* year counted from March: yy the shifted year, mp the month from March.
DaysFromShifted(yy, mp, dom) ==
  (yy \div 400) * 146097
    + (yy % 400) * 365 + (yy % 400) \div 4 - (yy % 400) \div 100
    + (153 * mp + 2) \div 5 + dom - 1 - 719468

DaysFromCivil(y, m, dom) ==
  DaysFromShifted(IF m <= 2 THEN y - 1 ELSE y, IF m > 2 THEN m - 3 ELSE m + 9, dom)

\* The civil date [year, month, day] of day number n, by the inverse steps:
\* era and day of era, year of era, day of year, month from March.
CivilOfMonth(era, yoe, doy, mp) ==
  [year  |-> yoe + era * 400 + (IF mp >= 10 THEN 1 ELSE 0),
   month |-> IF mp < 10 THEN mp + 3 ELSE mp - 9,
   day   |-> doy - (153 * mp + 2) \div 5 + 1]

CivilOfDoy(era, yoe, doy) == CivilOfMonth(era, yoe, doy, (5 * doy + 2) \div 153)

CivilOfYoe(era, doe, yoe) ==
  CivilOfDoy(era, yoe, doe - (365 * yoe + yoe \div 4 - yoe \div 100))

CivilOfDoe(era, doe) ==
  CivilOfYoe(era, doe,
             (doe - doe \div 1460 + doe \div 36524 - doe \div 146096) \div 365)

CivilFromDays(n) ==
  CivilOfDoe((n + 719468) \div 146097, (n + 719468) % 146097)

\* 0 = Sunday ... 6 = Saturday.
Weekday(n) == (n + 4) % 7

TS(day, ms) == [d |-> day, ms |-> ms]

Before(a, b) == a.d < b.d \/ (a.d = b.d /\ a.ms < b.ms)
AtMost(a, b) == a = b \/ Before(a, b)

\* a + n milliseconds, |n| at most a few days.
AddMs(a, n) == TS(a.d + (a.ms + n) \div MsPerDay, (a.ms + n) % MsPerDay)

\* b - a in milliseconds, for instants a few days apart.
MsBetween(a, b) == (b.d - a.d) * MsPerDay + (b.ms - a.ms)

DateTimeMax(a, b) == IF Before(a, b) THEN b ELSE a
DateTimeMin(a, b) == IF Before(b, a) THEN b ELSE a

\* The last Sunday on or before day number n.
SundayOnOrBefore(n) == n - Weekday(n)

\* The last Sunday of month m (March or October) of year y, as a day number.
LastSunday(y, m) == SundayOnOrBefore(DaysFromCivil(y, m, 31))

\* The instants of year y at which Europe/London goes to BST and back to GMT:
\* 01:00 UTC on the last Sundays of March and October.
BstOn(y) == TS(LastSunday(y, 3), MsPerHour)
BstOff(y) == TS(LastSunday(y, 10), MsPerHour)

\* The zone's BST periods for the years the model's dates fall in.
ZoneTable ==
  {[on |-> BstOn(y), off |-> BstOff(y)] :
     y \in (FirstYear - 1) .. (FirstYear + NumYears)}

InBst(t, z) == AtMost(z.on, t) /\ Before(t, z.off)

\* Offset of Europe/London from UTC at instant t, in milliseconds.
LondonOffset(t) == IF \E z \in ZoneTable : InBst(t, z) THEN MsPerHour ELSE 0

\* The wall clock in London at instant t: [d, ms] read as local day and time.
ToLocal(t) == AddMs(t, LondonOffset(t))

\* The instant at which London's wall clock shows wall (luxon's objToTS):
\* guess with the offset o1 at the wall time read as UTC; if the offset o2 at
\* the guess g1 differs, guess again with o2; if the offset o3 at that guess
\* differs too, use the smaller of o2 and o3.
Settle(wall, o2, g2, o3) ==
  IF o2 = o3 THEN g2 ELSE AddMs(wall, -(IF o2 < o3 THEN o2 ELSE o3))

SecondGuess(wall, o2, g2) == Settle(wall, o2, g2, LondonOffset(g2))

Recheck(wall, o1, g1, o2) ==
  IF o1 = o2 THEN g1 ELSE SecondGuess(wall, o2, AddMs(wall, -o2))

FirstGuess(wall, o1, g1) == Recheck(wall, o1, g1, LondonOffset(g1))

WallToInstant(wall, o1) == FirstGuess(wall, o1, AddMs(wall, -o1))

FromWall(wall) == WallToInstant(wall, LondonOffset(wall))

FromLocal(ld, lms) == FromWall(TS(ld, lms))

LocalDay(t) == ToLocal(t).d

\* DateTime#startOf('day')
StartOfDay(t) == FromLocal(LocalDay(t), 0)

\* DateTime#plus({ days: n }): the same wall time n calendar days later.
PlusDaysLocal(l, n) == FromLocal(l.d + n, l.ms)

PlusDays(t, n) == PlusDaysLocal(ToLocal(t), n)

\* DateTime#endOf('day'): one millisecond before the next day starts.
EndOfDay(t) == AddMs(StartOfDay(PlusDays(t, 1)), -1)

\* DateTime#toISODate(): the calendar date of t in London.
ToISODate(t) == CivilFromDays(LocalDay(t))

\* ----- DateTime#diff(s, 'days') -----
\* e.diff(s, 'days') for e not before s: the whole calendar days from s to e
\* (luxon's dayDiff, backing off one day when that overshoots e) and the
\* milliseconds left over, which luxon adds as a fraction of the next day.
DiffFrom(e, days, cursor) == [days |-> days, rem |-> MsBetween(cursor, e)]

DiffBackOff(e, s, delta, high) ==
  IF Before(e, high) THEN DiffFrom(e, delta - 1, PlusDays(s, delta - 1))
  ELSE DiffFrom(e, delta, high)

DiffByDelta(e, s, delta) == DiffBackOff(e, s, delta, PlusDays(s, delta))

DiffDays(e, s) == DiffByDelta(e, s, LocalDay(e) - LocalDay(s))

\* e.diff(s, 'days').days > 1
MoreThanOneDay(df) == df.days > 1 \/ (df.days = 1 /\ df.rem > 0)

\* ----- Term helpers -----
TERMS ==
  [Michaelmas |-> [start |-> [month |-> 9, day |-> 1], end |-> [month |-> 12, day |-> 31]],
   Lent       |-> [start |-> [month |-> 1, day |-> 1], end |-> [month |-> 4,  day |-> 30]],
   Summer     |-> [start |-> [month |-> 5, day |-> 1], end |-> [month |-> 8,  day |-> 31]]]

TermNames == DOMAIN TERMS

\* DateTime.fromObject({ year, month, day }, { zone: LONDON })
FromObject(y, md) == FromLocal(DaysFromCivil(y, md.month, md.day), 0)

\* termRange with end left at the start of the term's last day.
\* (variant: startOf in place of endOf)
termRange_endAtStartOfDay(y, termName) ==
  [start |-> StartOfDay(FromObject(y, TERMS[termName].start)),
   end   |-> StartOfDay(FromObject(y, TERMS[termName].end))]

termRange(y, termName) ==
  LET t == TERMS[termName]
  IN  [start |-> StartOfDay(FromObject(y, t.start)),
       end   |-> EndOfDay(FromObject(y, t.end))]

\* ----- ICS events -----
\* A VEVENT as ICAL.Event shows it: allDay is startDate.isDate, start and end
\* are the day numbers of DTSTART and DTEND (end = NoEnd when ev.endDate is
\* absent), recurring is ev.isRecurring(), and a recurring event's rule yields
\* the dates start, start + step, start + 2 step, ... : count of them, or
\* without end when count = 0.
NoEnd == -1

\* ICAL.Time#toJSDate() of the DATE value of day number n: midnight of that
\* date in the host's zone.
toJSDate(n) == FromLocal(n, 0)

isAllDayEvent(ev) == ev.allDay

\* new Date(+startJS + 24*3600*1000)
DefaultEndJS(ev) == AddMs(toJSDate(ev.start), 24 * MsPerHour)

EndJS(ev) == IF ev.end # NoEnd THEN toJSDate(ev.end) ELSE DefaultEndJS(ev)

\* The overlap test of countMultiDayAllDayEvents (true: the event is kept).
CountOverlaps(s, e, start, end) ==
  ~(AtMost(e, start) \/ AtMost(EndOfDay(end), s))

SpanCounts(s, e, start, end) ==
  CountOverlaps(s, e, start, end) /\ MoreThanOneDay(DiffDays(e, s))

CountsAsMultiDay(ev, start, end) ==
  /\ isAllDayEvent(ev)
  /\ ~ev.recurring
  /\ SpanCounts(StartOfDay(toJSDate(ev.start)), EndJS(ev), start, end)

RECURSIVE countMultiDayAllDayEvents(_, _, _)
countMultiDayAllDayEvents(vevents, start, end) ==
  IF vevents = <<>> THEN 0
  ELSE (IF CountsAsMultiDay(Head(vevents), start, end) THEN 1 ELSE 0)
       + countMultiDayAllDayEvents(Tail(vevents), start, end)

\* The record pushed for event ev on the day of instant t.
Record(ev, t) ==
  [date |-> ToISODate(t), title |-> ev.summary, location |-> ev.location,
   uid |-> ev.uid]

\* iter.next() for the k-th time (k from 0): the occurrence's day number, or
\* Exhausted when the rule has no more.
Exhausted == -2

IterNext(ev, n) ==
  IF ev.count # 0 /\ n >= ev.count THEN Exhausted ELSE ev.start + n * ev.step

\* What the recurring loop does with an occurrence.
\* if (occ < rangeStart) continue;
\* (variant: <= in place of <, which drops an occurrence at rangeStart itself)
OccBeforeRange_skipsFirstDay(occ, rs) == AtMost(occ, rs)
OccBeforeRange(occ, rs) == Before(occ, rs)

\* if (occ > rangeEnd) break;
\* (variant: the comparison turned round)
OccPastRange_swapped(occ, re) == Before(occ, re)
OccPastRange(occ, re) == Before(re, occ)

\* The while loop over ev.iterator(), from its k-th call of next(); Occurrence
\* is the loop's body for the occurrence occ.
RECURSIVE RecurringRecords(_, _, _, _)
RECURSIVE Occurrence(_, _, _, _, _)
Occurrence(ev, n, occ, rs, re) ==
  IF OccBeforeRange(occ, rs) THEN RecurringRecords(ev, n + 1, rs, re)
  ELSE IF OccPastRange(occ, re) THEN <<>>
  ELSE <<Record(ev, occ)>> \o RecurringRecords(ev, n + 1, rs, re)

RecurringRecords(ev, n, rs, re) ==
  IF IterNext(ev, n) = Exhausted THEN <<>>
  ELSE Occurrence(ev, n, toJSDate(IterNext(ev, n)), rs, re)

\* let d = DateTime.max(s.startOf('day'), rangeStart.startOf('day'))
FirstDay(s, rs) == DateTimeMax(StartOfDay(s), StartOfDay(rs))

\* const last = DateTime.min(e, rangeEnd.plus({ days: 1 }))
LastBound(e, re) == DateTimeMin(e, PlusDays(re, 1))

\* while (d < last)
\* (variant: <= in place of <)
DayLoopContinues_inclusive(dd, bound) == AtMost(dd, bound)
DayLoopContinues(dd, bound) == Before(dd, bound)

\* while (d < last) { push; d = d.plus({ days: 1 }) }
RECURSIVE DayRecords(_, _, _)
DayRecords(ev, dd, bound) ==
  IF DayLoopContinues(dd, bound)
    THEN <<Record(ev, dd)>> \o DayRecords(ev, PlusDays(dd, 1), bound)
    ELSE <<>>

\* The records one VEVENT contributes.
EventRecords(ev, rs, re) ==
  IF ~isAllDayEvent(ev) THEN <<>>
  ELSE IF ev.recurring THEN RecurringRecords(ev, 0, rs, re)
  ELSE DayRecords(ev, FirstDay(toJSDate(ev.start), rs), LastBound(EndJS(ev), re))

RECURSIVE ExpandFrom(_, _, _)
ExpandFrom(vevents, rs, re) ==
  IF vevents = <<>> THEN <<>>
  ELSE EventRecords(Head(vevents), rs, re) \o ExpandFrom(Tail(vevents), rs, re)

expandAllDayInstances(vevents, start, end) ==
  ExpandFrom(vevents, StartOfDay(start), EndOfDay(end))

\* ----- inputs explored -----
Years == FirstYear .. (FirstYear + NumYears - 1)

\* Days of year y around which event dates are taken: the first and last
\* day of every term and the two days the zone's offset changes.
Anchors(y) ==
  {DaysFromCivil(y, TERMS[t].start.month, TERMS[t].start.day) : t \in TermNames}
    \cup {DaysFromCivil(y, TERMS[t].end.month, TERMS[t].end.day) : t \in TermNames}
    \cup {LastSunday(y, 3), LastSunday(y, 10)}

StartDays(y) == {a + j : a \in Anchors(y), j \in (-Margin) .. Margin}

Event(allDay, recurring, start, end, step, count) ==
  [allDay |-> allDay, recurring |-> recurring, start |-> start, end |-> end,
   step |-> step, count |-> count,
   summary |-> "Sports day", location |-> "", uid |-> "uid-1"]

\* Non-recurring events: no DTEND, or DTEND 1..MaxSpan days after DTSTART;
\* all-day, and (without DTEND) timed ones, which both functions skip.
SingleEvents(y) ==
  {Event(TRUE, FALSE, s, s + n, 0, 0) : s \in StartDays(y), n \in 1 .. MaxSpan}
    \cup {Event(a, FALSE, s, NoEnd, 0, 0) : a \in BOOLEAN, s \in StartDays(y)}

\* The recurrence rules explored, as <<step, count>>: daily with a COUNT,
\* weekly with a COUNT, and weekly without end.
Rules == {<<1, 2>>, <<1, DailyCount>>, <<7, 2>>, <<7, 0>>}

\* Recurring all-day events, lasting one day (no DTEND) or two.
RecurringEvents(y) ==
  {Event(TRUE, TRUE, s, NoEnd, r[1], r[2]) : s \in StartDays(y), r \in Rules}
    \cup {Event(TRUE, TRUE, s, s + 2, r[1], r[2]) : s \in StartDays(y), r \in Rules}

Events(y) == SingleEvents(y) \cup RecurringEvents(y)

VARIABLES
  year,       \* Number(els.year.value)
  termName,   \* els.term.value
  cal,        \* the VEVENTs of icalText, in order
  stage,      \* how far lines 284-286 have run
  range,      \* { start, end } of termRange
  multiDay,   \* multiDayCount
  instances,  \* instances / the events array of expandAllDayInstances
  \* expandAllDayInstances run statement by statement:
  evi,        \* position of the for loop in the VEVENTs
  k,          \* calls of iter.next() made for the current event
  d,          \* d of the non-recurring loop
  last,       \* last of the non-recurring loop
  at,         \* where control is: "for", "iter", "days", "returned"
  \* the page:
  hs,               \* the running render click handlers and their locals
  status,           \* els.status.textContent
  grid,             \* what renderMonths last put into els.grid
  meta,             \* what updateMeta last wrote
  currentIcsSource, \* the global of that name, as its '/'-separated parts
  toolbar           \* the toolbar's class, the Show button, sessionStorage

coreVars == <<year, termName, cal, stage, range, multiDay, instances>>
loopVars == <<evi, k, d, last, at>>
uiVars == <<hs, status, grid, meta, currentIcsSource, toolbar>>
vars == <<coreVars, loopVars, uiVars>>

NoRange == [start |-> TS(0, 0), end |-> TS(0, 0)]

\* ----- the page -----
Handlers == 1 .. MaxClicks

\* A URL or file name as the parts '/' separates; <<>> is the empty string.
NoUrl == <<>>
TermUrl == <<"https:", "", "example.org", "cal", "term.ics">>
FeedUrl == <<"https:", "", "example.org", "feed", "">>

NoFile == <<>>
SchoolFile == <<"school.ics">>

\* What the fields hold at a click: els.url.value with els.file.files[0],
\* and the year with the term.
PageSources ==
  {<<NoUrl, NoFile>>, <<TermUrl, NoFile>>, <<FeedUrl, SchoolFile>>, <<NoUrl, SchoolFile>>}

PageTerms ==
  {<<FirstYear, "Lent">>, <<FirstYear, "Summer">>, <<FirstYear + 1, "Lent">>}

\* The VEVENTs the text behind a URL or in a file holds.
TextOf(source, y) ==
  LET day == DaysFromCivil(y, 3, 10)
  IN  IF Len(source) = 1 THEN <<Event(TRUE, FALSE, day, day + 2, 0, 0)>>
      ELSE IF source[Len(source)] = "" THEN <<Event(TRUE, TRUE, day, NoEnd, 7, 2)>>
      ELSE <<Event(TRUE, FALSE, day, NoEnd, 0, 0), Event(TRUE, FALSE, day + 200, NoEnd, 0, 0)>>

IdleHandler ==
  [pc |-> "idle", urlVal |-> NoUrl, file |-> NoFile, year |-> 0, termName |-> "",
   start |-> TS(0, 0), end |-> TS(0, 0), multiDayCount |-> 0, instances |-> <<>>]

\* hideToolbar() and showToolbar()
hideToolbar ==
  [hidden |-> TRUE, showBtnDisplay |-> "inline-block", ariaExpanded |-> "false",
   stored |-> "1"]

showToolbar ==
  [hidden |-> FALSE, showBtnDisplay |-> "none", ariaExpanded |-> "true",
   stored |-> "0"]

\* The toolbar as the page loads it with sessionStorage holding stored:
\* if (sessionStorage.getItem('toolbarHidden') === '1') hideToolbar();
LoadedToolbar(stored) ==
  IF stored = "1" THEN hideToolbar
  ELSE [hidden |-> FALSE, showBtnDisplay |-> "", ariaExpanded |-> "", stored |-> stored]

RECURSIVE DatesOf(_)
DatesOf(recs) ==
  IF recs = <<>> THEN {} ELSE {Head(recs).date} \cup DatesOf(Tail(recs))

RECURSIVE RecordsOn(_, _)
RecordsOn(recs, date) ==
  IF recs = <<>> THEN <<>>
  ELSE (IF Head(recs).date = date THEN <<Head(recs)>> ELSE <<>>)
       \o RecordsOn(Tail(recs), date)

groupByDate(recs) == [date \in DatesOf(recs) |-> RecordsOn(recs, date)]

\* renderMonths(els.grid, start, end, byDate): the grid shows the days from
\* start to end with the events of byDate.
renderMonths(start, end, byDate) == [start |-> start, end |-> end, byDate |-> byDate]

EmptyGrid == [start |-> TS(0, 0), end |-> TS(0, 0), byDate |-> <<>>]

\* currentIcsSource.split('/').pop() || currentIcsSource
SourceShown(src) ==
  IF src = <<>> THEN <<>>
  ELSE IF src[Len(src)] # "" THEN <<src[Len(src)]>>
  ELSE src

updateMeta(source, allDayCount, multiDayCount, startDate, endDate) ==
  [source |-> source, allDayCount |-> allDayCount, multiDayCount |-> multiDayCount,
   startDate |-> startDate, endDate |-> endDate]

EmptyMeta == updateMeta(<<>>, 0, 0, TS(0, 0), TS(0, 0))

PageIdle ==
  /\ hs = [h \in Handlers |-> IdleHandler]
  /\ status = [kind |-> ""]
  /\ grid = EmptyGrid
  /\ meta = EmptyMeta
  /\ currentIcsSource = <<>>
  /\ toolbar = LoadedToolbar("unset")

LoopIdle ==
  /\ evi = 1
  /\ k = 0
  /\ d = TS(0, 0)
  /\ last = TS(0, 0)
  /\ at = "for"

\* ----- the three calls of the render handler, each as one step -----
Init ==
  /\ year \in Years
  /\ termName \in TermNames
  /\ \E ev \in Events(year) : cal = <<ev>>
  /\ stage = "text"
  /\ range = NoRange
  /\ multiDay = 0
  /\ instances = <<>>
  /\ LoopIdle
  /\ PageIdle

\* const { start, end } = termRange(year, termName);
Resolve ==
  /\ stage = "text"
  /\ range' = termRange(year, termName)
  /\ stage' = "resolved"
  /\ UNCHANGED <<year, termName, cal, multiDay, instances, loopVars, uiVars>>

\* const multiDayCount = countMultiDayAllDayEvents(icalText, start, end);
Count ==
  /\ stage = "resolved"
  /\ multiDay' = countMultiDayAllDayEvents(cal, range.start, range.end)
  /\ stage' = "counted"
  /\ UNCHANGED <<year, termName, cal, range, instances, loopVars, uiVars>>

\* const instances = expandAllDayInstances(icalText, start, end);
Expand ==
  /\ stage = "counted"
  /\ instances' = expandAllDayInstances(cal, range.start, range.end)
  /\ stage' = "expanded"
  /\ UNCHANGED <<year, termName, cal, range, multiDay, loopVars, uiVars>>

Next == Resolve \/ Count \/ Expand

Spec == Init /\ [][Next]_vars

\* ----- expandAllDayInstances, one loop iteration per step -----
\* Calendars of one or two VEVENTs whose dates lie around the two ends of
\* the term; the recurrence rules include the daily rule without end.
LoopRules == Rules \cup {<<1, 0>>}

LoopDays(y, t) ==
  {DaysFromCivil(y, TERMS[t].start.month, TERMS[t].start.day) + j :
     j \in (-Margin) .. Margin}
    \cup {DaysFromCivil(y, TERMS[t].end.month, TERMS[t].end.day) + j :
            j \in (-Margin) .. Margin}

LoopFirstEvents(y, t) ==
  {Event(TRUE, TRUE, s, NoEnd, r[1], r[2]) : s \in LoopDays(y, t), r \in LoopRules}

LoopSecondEvents(y, t) ==
  LET endDay == DaysFromCivil(y, TERMS[t].end.month, TERMS[t].end.day)
  IN  {Event(TRUE, FALSE, endDay - 1, endDay + 2, 0, 0),
       Event(FALSE, FALSE, endDay, NoEnd, 0, 0),
       Event(TRUE, TRUE, endDay - 7, NoEnd, 7, 0)}

InitLoop ==
  /\ year \in Years
  /\ termName \in TermNames
  /\ \E a \in LoopFirstEvents(year, termName) :
       \/ cal = <<a>>
       \/ \E b \in LoopSecondEvents(year, termName) : cal = <<a, b>>
  /\ stage = "counted"
  /\ range = termRange(year, termName)
  /\ multiDay = 0
  /\ instances = <<>>
  /\ LoopIdle
  /\ PageIdle

rangeStart == StartOfDay(range.start)
rangeEnd == EndOfDay(range.end)
CurrentEvent == cal[evi]

\* for (const ve of ...): no VEVENT is left; return events.
ForReturn ==
  /\ at = "for" /\ evi > Len(cal)
  /\ at' = "returned"
  /\ stage' = "expanded"
  /\ UNCHANGED <<year, termName, cal, range, multiDay, instances, evi, k, d, last, uiVars>>

\* if (!isAllDayEvent(ev)) continue;
ForSkip ==
  /\ at = "for" /\ evi <= Len(cal)
  /\ ~isAllDayEvent(CurrentEvent)
  /\ evi' = evi + 1
  /\ UNCHANGED <<coreVars, k, d, last, at, uiVars>>

\* if (ev.isRecurring()) { const iter = ev.iterator(); ...
ForRecurring ==
  /\ at = "for" /\ evi <= Len(cal)
  /\ isAllDayEvent(CurrentEvent) /\ CurrentEvent.recurring
  /\ k' = 0
  /\ at' = "iter"
  /\ UNCHANGED <<coreVars, evi, d, last, uiVars>>

\* } else { ... let d = ...; const last = ...;
ForSingle ==
  /\ at = "for" /\ evi <= Len(cal)
  /\ isAllDayEvent(CurrentEvent) /\ ~CurrentEvent.recurring
  /\ d' = FirstDay(toJSDate(CurrentEvent.start), rangeStart)
  /\ last' = LastBound(EndJS(CurrentEvent), rangeEnd)
  /\ at' = "days"
  /\ UNCHANGED <<coreVars, evi, k, uiVars>>

\* while ((next = iter.next())): the rule has no more occurrences.
IterExhausted ==
  /\ at = "iter" /\ k < MaxIter
  /\ IterNext(CurrentEvent, k) = Exhausted
  /\ k' = k + 1
  /\ evi' = evi + 1
  /\ at' = "for"
  /\ UNCHANGED <<coreVars, d, last, uiVars>>

\* if (occ < rangeStart) continue;
IterSkip ==
  /\ at = "iter" /\ k < MaxIter
  /\ IterNext(CurrentEvent, k) # Exhausted
  /\ OccBeforeRange(toJSDate(IterNext(CurrentEvent, k)), rangeStart)
  /\ k' = k + 1
  /\ UNCHANGED <<coreVars, evi, d, last, at, uiVars>>

\* if (occ > rangeEnd) break;
IterBreak ==
  /\ at = "iter" /\ k < MaxIter
  /\ IterNext(CurrentEvent, k) # Exhausted
  /\ ~OccBeforeRange(toJSDate(IterNext(CurrentEvent, k)), rangeStart)
  /\ OccPastRange(toJSDate(IterNext(CurrentEvent, k)), rangeEnd)
  /\ k' = k + 1
  /\ evi' = evi + 1
  /\ at' = "for"
  /\ UNCHANGED <<coreVars, d, last, uiVars>>

\* events.push({ date: occ.toISODate(), ... });
IterPush ==
  /\ at = "iter" /\ k < MaxIter
  /\ IterNext(CurrentEvent, k) # Exhausted
  /\ ~OccBeforeRange(toJSDate(IterNext(CurrentEvent, k)), rangeStart)
  /\ ~OccPastRange(toJSDate(IterNext(CurrentEvent, k)), rangeEnd)
  /\ instances' = Append(instances, Record(CurrentEvent, toJSDate(IterNext(CurrentEvent, k))))
  /\ k' = k + 1
  /\ UNCHANGED <<year, termName, cal, stage, range, multiDay, evi, d, last, at, uiVars>>

\* while (d < last) { events.push(...); d = d.plus({ days: 1 }); }
DayPush ==
  /\ at = "days"
  /\ DayLoopContinues(d, last)
  /\ instances' = Append(instances, Record(CurrentEvent, d))
  /\ d' = PlusDays(d, 1)
  /\ UNCHANGED <<year, termName, cal, stage, range, multiDay, evi, k, last, at, uiVars>>

DayExit ==
  /\ at = "days"
  /\ ~DayLoopContinues(d, last)
  /\ evi' = evi + 1
  /\ at' = "for"
  /\ UNCHANGED <<coreVars, k, d, last, uiVars>>

NextLoop ==
  \/ ForReturn \/ ForSkip \/ ForRecurring \/ ForSingle
  \/ IterExhausted \/ IterSkip \/ IterBreak \/ IterPush
  \/ DayPush \/ DayExit

SpecLoop == InitLoop /\ [][NextLoop]_vars

\* ----- the render click handler and the toolbar -----
CoreIdle ==
  /\ year = FirstYear
  /\ termName = "Lent"
  /\ cal = <<>>
  /\ stage = "text"
  /\ range = NoRange
  /\ multiDay = 0
  /\ instances = <<>>

InitPage ==
  /\ CoreIdle
  /\ LoopIdle
  /\ hs = [h \in Handlers |-> IdleHandler]
  /\ status = [kind |-> ""]
  /\ grid = EmptyGrid
  /\ meta = EmptyMeta
  /\ currentIcsSource = <<>>
  /\ \E stored \in {"unset", "0", "1"} : toolbar = LoadedToolbar(stored)

\* The click: lines 265-279 (or 281), up to the first await.  Handlers are
\* numbered in the order of their clicks.
RenderClick(h) ==
  /\ hs[h].pc = "idle"
  /\ \A g \in Handlers : g < h => hs[g].pc # "idle"
  /\ \E src \in PageSources, yt \in PageTerms :
       LET u == src[1]
           f == src[2]
           y == yt[1]
           t == yt[2]
           loc == [IdleHandler EXCEPT !.urlVal = u, !.file = f, !.year = y,
                                      !.termName = t]
       IN  IF u = NoUrl /\ f = NoFile
             THEN /\ status' = [kind |-> "Provide a remote ICS URL or choose a file."]
                  /\ hs' = [hs EXCEPT ![h] = [loc EXCEPT !.pc = "returned"]]
             ELSE /\ status' = [kind |-> IF u # NoUrl THEN "Fetching remote ICS"
                                         ELSE "Reading ICS file"]
                  /\ hs' = [hs EXCEPT ![h] =
                              [loc EXCEPT !.pc = IF u # NoUrl THEN "direct1" ELSE "file1"]]
  /\ UNCHANGED <<coreVars, loopVars, grid, meta, currentIcsSource, toolbar>>

\* fetchICSFromUrl: the direct fetch fails (or is not ICS); the proxy is tried.
DirectFetchFails(h) ==
  /\ hs[h].pc \in {"direct1", "direct2"}
  /\ hs' = [hs EXCEPT ![h].pc = IF hs[h].pc = "direct1" THEN "proxy1" ELSE "proxy2"]
  /\ UNCHANGED <<coreVars, loopVars, status, grid, meta, currentIcsSource, toolbar>>

\* The proxy fetch or file.text() fails: the catch block, lines 309-312.
AcquireThrows(h) ==
  /\ hs[h].pc \in {"proxy1", "proxy2", "file1", "file2"}
  /\ status' = [kind |-> "error"]
  /\ hs' = [hs EXCEPT ![h].pc = "caught"]
  /\ UNCHANGED <<coreVars, loopVars, grid, meta, currentIcsSource, toolbar>>

\* The first await yields the text: lines 284-292 (or 295), up to the
\* second await.
FirstTextArrives(h) ==
  /\ hs[h].pc \in {"direct1", "proxy1", "file1"}
  /\ LET loc  == hs[h]
         text == TextOf(IF loc.urlVal # NoUrl THEN loc.urlVal ELSE loc.file, loc.year)
         r    == termRange(loc.year, loc.termName)
         m    == countMultiDayAllDayEvents(text, r.start, r.end)
         inst == expandAllDayInstances(text, r.start, r.end)
     IN  /\ status' = [kind |-> "Loaded all-day instances", n |-> Len(inst)]
         /\ grid' = renderMonths(r.start, r.end, groupByDate(inst))
         /\ hs' = [hs EXCEPT ![h] =
                     [loc EXCEPT !.start = r.start, !.end = r.end,
                                 !.multiDayCount = m, !.instances = inst,
                                 !.pc = IF loc.urlVal # NoUrl THEN "direct2" ELSE "file2"]]
  /\ UNCHANGED <<coreVars, loopVars, meta, currentIcsSource, toolbar>>

\* The second await yields: lines 293 (or 296) to 308.
NewSource(loc) == IF loc.urlVal # NoUrl THEN loc.urlVal ELSE loc.file

MetaOf(loc) ==
  updateMeta(SourceShown(NewSource(loc)), Len(loc.instances), loc.multiDayCount,
             loc.start, loc.end)

SecondTextArrives(h) ==
  /\ hs[h].pc \in {"direct2", "proxy2", "file2"}
  /\ currentIcsSource' = NewSource(hs[h])
  /\ meta' = MetaOf(hs[h])
  /\ toolbar' = hideToolbar
  /\ hs' = [hs EXCEPT ![h].pc = "done"]
  /\ UNCHANGED <<coreVars, loopVars, status, grid>>

\* els.toolbarToggle click
ToolbarToggleClick ==
  /\ toolbar' = hideToolbar
  /\ UNCHANGED <<coreVars, loopVars, hs, status, grid, meta, currentIcsSource>>

\* els.showBtn click; the button cannot be clicked while its display is 'none'
ShowBtnClick ==
  /\ toolbar.showBtnDisplay # "none"
  /\ toolbar' = showToolbar
  /\ UNCHANGED <<coreVars, loopVars, hs, status, grid, meta, currentIcsSource>>

\* keydown 't'
KeyT ==
  /\ toolbar' = IF toolbar.hidden THEN showToolbar ELSE hideToolbar
  /\ UNCHANGED <<coreVars, loopVars, hs, status, grid, meta, currentIcsSource>>

NextPage ==
  \/ \E h \in Handlers :
       \/ RenderClick(h)
       \/ DirectFetchFails(h)
       \/ AcquireThrows(h)
       \/ FirstTextArrives(h)
       \/ SecondTextArrives(h)
  \/ ToolbarToggleClick
  \/ ShowBtnClick
  \/ KeyT

SpecPage == InitPage /\ [][NextPage]_vars

\* ----- the properties checked -----
Ev == cal[1]
Expanded == stage = "expanded"
SingleAllDay == Ev.allDay /\ ~Ev.recurring

\* The day numbers of interval.start's day and interval.end's day.
IntervalStartDay == LocalDay(range.start)
IntervalEndDay == LocalDay(range.end)

\* The event's exclusive end as a day number: DTEND, or the day after DTSTART.
EndDayOf(ev) == IF ev.end # NoEnd THEN ev.end ELSE ev.start + 1

DayOfDate(date) == DaysFromCivil(date.year, date.month, date.day)
RecordDays == [n \in 1 .. Len(instances) |-> DayOfDate(instances[n].date)]

\* C1: a non-recurring all-day event that starts before interval.start's day
\* and ends after it has its earliest record on interval.start's day; one
\* that starts on or before interval.end's day and ends after it has its
\* latest record on interval.end's day, and no record is dated later.
C1_Clipping ==
  (Expanded /\ SingleAllDay) =>
    /\ (Ev.start < IntervalStartDay /\ EndDayOf(Ev) > IntervalStartDay)
         => (instances # <<>> /\ RecordDays[1] = IntervalStartDay)
    /\ (Ev.start <= IntervalEndDay /\ EndDayOf(Ev) > IntervalEndDay)
         => (instances # <<>> /\ RecordDays[Len(instances)] = IntervalEndDay)
    /\ \A n \in 1 .. Len(instances) : RecordDays[n] <= IntervalEndDay

\* C2: a non-recurring all-day event that ends on or before interval.start's
\* day, or starts after interval.end's day, yields no record.
C2_OutsideYieldsNothing ==
  (Expanded /\ SingleAllDay
     /\ (EndDayOf(Ev) <= IntervalStartDay \/ Ev.start > IntervalEndDay))
    => instances = <<>>

\* C3: a non-recurring all-day event passes the overlap test of the count
\* exactly when expansion yields a record for it, and the test is
\* end > interval.start and start < interval.end.
C3_SameOverlapTest ==
  (Expanded /\ SingleAllDay) =>
    LET s == StartOfDay(toJSDate(Ev.start))
        e == EndJS(Ev)
    IN  /\ CountOverlaps(s, e, range.start, range.end) <=> (instances # <<>>)
        /\ CountOverlaps(s, e, range.start, range.end)
             <=> (Before(range.start, e) /\ Before(s, range.end))

\* C4: a non-recurring all-day event without DTEND that starts inside the
\* interval yields exactly one record, dated at its start day.
C4_DefaultOneDay ==
  (Expanded /\ SingleAllDay /\ Ev.end = NoEnd
     /\ IntervalStartDay <= Ev.start /\ Ev.start <= IntervalEndDay)
    => (Len(instances) = 1 /\ RecordDays[1] = Ev.start)

\* C5: a non-recurring all-day event from day S to DTEND S + N that lies
\* inside the interval yields N records dated S, S + 1, ..., S + N - 1 in
\* that order, and the count includes it exactly when N > 1.
InsideInterval(ev) ==
  IntervalStartDay <= ev.start /\ ev.end - 1 <= IntervalEndDay

OccurrenceDays(ev) ==
  {ev.start + j * ev.step :
     j \in {i \in 0 .. (IntervalEndDay - ev.start) \div ev.step :
              ev.count = 0 \/ i < ev.count}}

OccurrenceDaysInInterval(ev) ==
  {o \in OccurrenceDays(ev) : IntervalStartDay <= o /\ o <= IntervalEndDay}

C8_TermRange ==
  (stage # "text") =>
    LET t == TERMS[termName]
        firstDate == [year |-> year, month |-> t.start.month, day |-> t.start.day]
        lastDate  == [year |-> year, month |-> t.end.month, day |-> t.end.day]
    IN  /\ AtMost(range.start, range.end)
        /\ ToISODate(range.start) = firstDate
        /\ ToISODate(AddMs(range.start, -1)) # firstDate
        /\ ToISODate(range.end) = lastDate
        /\ ToISODate(AddMs(range.end, 1)) # lastDate

\* A Lent term: it starts in GMT and ends in BST.
C8_Witness ==
  /\ stage = "resolved" /\ termName = "Lent"
  /\ LondonOffset(range.start) # LondonOffset(range.end)

\* The occurrence the loop consumed last, and how many occurrences of the
\* rule lie on or before interval.end's day.
LastConsumed == toJSDate(IterNext(CurrentEvent, k - 1))

OccurrencesUpToEnd(ev) ==
  IF ev.start > IntervalEndDay THEN 0
  ELSE (IntervalEndDay - ev.start) \div ev.step + 1

\* While the loop over the iterator runs, the occurrence it consumed last is
\* not past interval.end and the calls of next() number at most the
\* occurrences up to interval.end's day (one more once the loop is left),
\* which stays below the cap of the model; the day loop's d is never past
\* last by more than a day; the function returns with every event visited.
C9_Bounded ==
  /\ (at = "iter" /\ k > 0) => ~Before(rangeEnd, LastConsumed)
  /\ (at = "iter") => (k <= OccurrencesUpToEnd(CurrentEvent) /\ k < MaxIter)
  /\ (at = "for" /\ evi > 1 /\ cal[evi - 1].recurring) =>
       k <= OccurrencesUpToEnd(cal[evi - 1]) + 1
  /\ (at = "days") => AtMost(d, PlusDays(last, 1))
  /\ evi <= Len(cal) + 1
  /\ (at = "returned") => evi = Len(cal) + 1

\* Every step moves the function on: it returns, or goes to the next event,
\* or enters the current event's loop, or consumes one more occurrence, or
\* moves d forward.
C9_Advances ==
  \/ at # "returned" /\ at' = "returned"
  \/ at' = "for" /\ evi' = evi + 1
  \/ at = "for" /\ at' \in {"iter", "days"} /\ evi' = evi /\ k' <= k
  \/ at = "iter" /\ at' = "iter" /\ evi' = evi /\ k' = k + 1
  \/ at = "days" /\ at' = "days" /\ evi' = evi /\ Before(d, d')

\* C9: expanding a recurring event stops consuming its iterator at the first
\* occurrence past interval.end, also when the rule has no end, and goes on
\* to the next event, so that expandAllDayInstances returns: every step
\* advances, within the bounds of C9_Bounded, which leave no step to take
\* for ever.
C9_ExpansionTerminates == []C9_Bounded /\ [][C9_Advances]_vars

\* A daily rule without end followed by another rule without end, both
\* expanded and left behind.
C9_Witness ==
  /\ at = "returned"
  /\ Len(cal) = 2
  /\ cal[1].count = 0 /\ cal[1].step = 1
  /\ cal[2].recurring /\ cal[2].count = 0
  /\ Len(instances) > 100

\* ----- the page's properties -----
\* The await points after renderMonths has run for a click.
Rendered == {"direct2", "proxy2", "file2"}

\* C7: the toolbar auto-hides after rendering: the step with which a handler
\* that has rendered its grid ends, however its later steps turn out, leaves
\* the toolbar hidden (class 'hidden', toolbarHidden = '1', Show button
\* displayed).
C7_ToolbarHidesAfterRender ==
  [][\A h \in Handlers :
       (hs[h].pc \in Rendered /\ hs'[h].pc \in {"done", "caught"})
         => toolbar' = hideToolbar]_vars

\* C10: after two Render clicks with different inputs whose handlers have
\* both finished, the grid, the status text and the meta line are those of
\* the later click.
InputsOf(loc) == <<loc.urlVal, loc.file, loc.year, loc.termName>>

LastClick == hs[MaxClicks]

C10_LaterClickWins ==
  ((\A h \in Handlers : hs[h].pc = "done")
     /\ \A h \in Handlers : h < MaxClicks => InputsOf(hs[h]) # InputsOf(LastClick))
    => /\ grid = renderMonths(LastClick.start, LastClick.end,
                              groupByDate(LastClick.instances))
       /\ status = [kind |-> "Loaded all-day instances",
                    n |-> Len(LastClick.instances)]
       /\ meta = MetaOf(LastClick)
=============================================================================
